---- MODULE Spec2Model ----
(***************************************************************************)
(* Model of src/app.py: the /audio WebSocket relay (ingest thread, request *)
(* generator, drain loop of the handler), and the /generate and /evaluate  *)
(* endpoints' text processing.                                             *)
(***************************************************************************)
EXTENDS Integers, Sequences, FiniteSets, TLC

\* ------------------------------------------------------------------ bounds
MaxChunks == 2      \* audio chunks a client sends in one session
MaxResponses == 2   \* responses the upstream recognizer emits in one session
MaxResults == 2     \* results the upstream recognizer emits in one session

\* ------------------------------------------------------- /audio: the data
Chunks == {"c1", "c2"}
None == "None"

\* A recognition result: its alternatives' transcripts (best first; the
\* handler indexes [0] unguarded) and its finality flag.
Results ==
  { [alternatives |-> <<"a">>, is_final |-> FALSE],
    [alternatives |-> <<"b", "a">>, is_final |-> TRUE],
    [alternatives |-> <<>>, is_final |-> FALSE] }

ErrorFrame == <<"[ERROR]", " Speech recognition error occurred.">>

VARIABLES
  channel,      \* ws: "open", "client_closed" (peer went away), "server_closed"
  ingestPc,     \* receive_audio: "receive", "put", "sentinel", "done"
  ingestData,   \* receive_audio's local `data`
  received,     \* history: the data payloads ws.receive() returned
  audio_q,      \* queue.Queue(): FIFO of chunks and the None sentinel
  genPc,        \* request_generator: "get", "done"
  requests,     \* history: audio_content of the requests yielded
  pc,           \* audio(): "call", "iter", "results", "except", "finally", "done"
  upstream,     \* the streaming call: "idle", "active", "ended", "failed"
  emitted,      \* history: the responses the recognizer emitted (each a seq of results)
  cur,          \* `response.results` of the response being drained
  idx,          \* position of the inner loop in cur
  frames,       \* history: the frames ws.send() delivered, <<tag, text>>
  failure,      \* what raised inside the try: "none", "upstream", "index", "send"
  errSend,      \* the send in the except clause: "none", "sent", "swallowed"
  closeCalls,   \* number of ws.close() calls made by the handler
  escaped,      \* exception that left audio(): "none" or its kind
  lateSend,     \* a ws.send() was attempted after ws.close()
  enqueued,     \* history: the items put on audio_q
  response_text, questions, genStatus,       \* /generate: response.text, the list, the status
  evalPc,       \* evaluate(): "validate", "call", "done"
  evalData,     \* /evaluate: the request body
  reply,        \* /evaluate: what model.generate_content did
  json_part,    \* /evaluate: the local json_part
  evalResponse, \* /evaluate: the HTTP response
  modelCalls    \* /evaluate: number of model.generate_content calls

audioVars == <<channel, ingestPc, ingestData, received, enqueued, audio_q, genPc, requests,
               pc, upstream, emitted, cur, idx, frames, failure, errSend,
               closeCalls, escaped, lateSend>>
generateVars == <<response_text, questions, genStatus>>
evaluateVars == <<evalPc, evalData, reply, json_part, evalResponse, modelCalls>>
vars == <<audioVars, generateVars, evaluateVars>>
ingestVars == <<ingestPc, ingestData, received>>
queueVars == <<enqueued, audio_q, genPc, requests>>
handlerVars == <<pc, upstream, emitted, cur, idx, frames, failure, errSend,
                 closeCalls, escaped, lateSend>>
httpVars == <<generateVars, evaluateVars>>

RECURSIVE Flatten(_)
Flatten(ss) == IF ss = <<>> THEN <<>> ELSE Head(ss) \o Flatten(Tail(ss))

SeqsUpTo(S, n) == UNION { [1..k -> S] : k \in 0..n }

\* ------------------------------------------------- /audio: receive_audio
\* ws.receive() returns a data payload.
ReceiveData ==
  /\ ingestPc = "receive" /\ channel = "open"
  /\ Len(received) < MaxChunks
  /\ \E d \in Chunks :
       /\ ingestData' = d
       /\ received' = Append(received, d)
  /\ ingestPc' = "put"
  /\ UNCHANGED <<channel, queueVars, handlerVars, httpVars>>

\* ws.receive() returns None (the close signal): break.
ReceiveNone ==
  /\ ingestPc = "receive" /\ channel = "open"
  /\ ingestData' = None
  /\ ingestPc' = "sentinel"
  /\ UNCHANGED <<channel, received, queueVars, handlerVars, httpVars>>

\* A receive_audio that returns on ConnectionClosed instead of breaking.
ReceiveClosedReturns ==
  /\ ingestPc = "receive" /\ channel # "open"
  /\ ingestPc' = "done"
  /\ UNCHANGED <<channel, ingestData, received, queueVars, handlerVars, httpVars>>

\* ws.receive() raises ConnectionClosed: break.
ReceiveClosed ==
  /\ ingestPc = "receive" /\ channel # "open"
  /\ ingestPc' = "sentinel"
  /\ UNCHANGED <<channel, ingestData, received, queueVars, handlerVars, httpVars>>

\* A LIFO queue's put.
PutFront(q, x) == <<x>> \o q

\* queue.Queue.put: at the tail.
Put(q, x) == Append(q, x)

\* audio_q.put(data), back to the top of the loop.
PutData ==
  /\ ingestPc = "put"
  /\ audio_q' = Put(audio_q, ingestData)
  /\ enqueued' = Append(enqueued, ingestData)
  /\ ingestPc' = "receive"
  /\ UNCHANGED <<channel, ingestData, received, genPc, requests, handlerVars, httpVars>>

\* audio_q.put(None) after the loop; the thread ends.
PutSentinel ==
  /\ ingestPc = "sentinel"
  /\ audio_q' = Put(audio_q, None)
  /\ enqueued' = Append(enqueued, None)
  /\ ingestPc' = "done"
  /\ UNCHANGED <<channel, ingestData, received, genPc, requests, handlerVars, httpVars>>

\* The peer closes the connection.
ClientDisconnect ==
  /\ channel = "open"
  /\ channel' = "client_closed"
  /\ UNCHANGED <<ingestVars, queueVars, handlerVars, httpVars>>

\* --------------------------------------------- /audio: request_generator
\* One turn of the generator's loop, driven by the upstream call's consumer:
\* audio_q.get() (blocks on an empty queue), break on None, else yield.
GeneratorStep ==
  /\ upstream # "idle" /\ genPc = "get" /\ audio_q # <<>>
  /\ audio_q' = Tail(audio_q)
  /\ IF Head(audio_q) = None
       THEN genPc' = "done" /\ requests' = requests
       ELSE genPc' = "get" /\ requests' = Append(requests, Head(audio_q))
  /\ UNCHANGED <<channel, ingestVars, enqueued, handlerVars, httpVars>>

\* ------------------------------------------------ /audio: the drain loop
\* client.streaming_recognize(streaming_config, request_generator()) returns
\* the response iterator.
Call ==
  /\ pc = "call"
  /\ upstream' = "active"
  /\ pc' = "iter"
  /\ UNCHANGED <<channel, ingestVars, queueVars, emitted, cur, idx, frames, failure,
                 errSend, closeCalls, escaped, lateSend, httpVars>>

\* ... or raises.
CallFails ==
  /\ pc = "call"
  /\ upstream' = "failed"
  /\ failure' = "upstream"
  /\ pc' = "except"
  /\ UNCHANGED <<channel, ingestVars, queueVars, emitted, cur, idx, frames,
                 errSend, closeCalls, escaped, lateSend, httpVars>>

\* `for response in responses`: the recognizer emits the next response, one
\* with at most n results.
NextResponse(n) ==
  /\ pc = "iter" /\ upstream = "active"
  /\ Len(emitted) < MaxResponses
  /\ \E r \in SeqsUpTo(Results, n) :
       /\ Len(Flatten(emitted)) + Len(r) <= MaxResults
       /\ emitted' = Append(emitted, r)
       /\ cur' = r
  /\ idx' = 1
  /\ pc' = "results"
  /\ UNCHANGED <<channel, ingestVars, queueVars, upstream, frames, failure,
                 errSend, closeCalls, escaped, lateSend, httpVars>>

IterResponse == NextResponse(MaxResults)

\* ... the response stream is exhausted.
IterExhausted ==
  /\ pc = "iter" /\ upstream = "active"
  /\ upstream' = "ended"
  /\ pc' = "finally"
  /\ UNCHANGED <<channel, ingestVars, queueVars, emitted, cur, idx, frames, failure,
                 errSend, closeCalls, escaped, lateSend, httpVars>>

\* ... the call fails (network, quota, ...).
IterFails ==
  /\ pc = "iter" /\ upstream = "active"
  /\ upstream' = "failed"
  /\ failure' = "upstream"
  /\ pc' = "except"
  /\ UNCHANGED <<channel, ingestVars, queueVars, emitted, cur, idx, frames,
                 errSend, closeCalls, escaped, lateSend, httpVars>>

\* `for result in response.results` has no further result.
ResultsDone ==
  /\ pc = "results" /\ idx > Len(cur)
  /\ pc' = "iter"
  /\ UNCHANGED <<channel, ingestVars, queueVars, upstream, emitted, cur, idx, frames,
                 failure, errSend, closeCalls, escaped, lateSend, httpVars>>

\* result.alternatives[0] on a result without alternatives: IndexError.
ResultNoAlternative ==
  /\ pc = "results" /\ idx <= Len(cur)
  /\ cur[idx].alternatives = <<>>
  /\ failure' = "index"
  /\ pc' = "except"
  /\ UNCHANGED <<channel, ingestVars, queueVars, upstream, emitted, cur, idx, frames,
                 errSend, closeCalls, escaped, lateSend, httpVars>>

\* The tags the wrong way round.
FrameSwapped(result) ==
  <<IF result.is_final THEN "[INTERIM]" ELSE "[FINAL]", result.alternatives[1]>>

\* The frame of a result: the tag by is_final, then the top transcript.
Frame(result) ==
  <<IF result.is_final THEN "[FINAL]" ELSE "[INTERIM]", result.alternatives[1]>>

\* ws.send of a message on the channel.
Send(sent, msg) == Append(sent, msg)

\* ws.send("[FINAL]" + transcript) / ws.send("[INTERIM]" + transcript).
SendTranscript ==
  /\ pc = "results" /\ idx <= Len(cur)
  /\ cur[idx].alternatives # <<>>
  /\ channel = "open"
  /\ frames' = Send(frames, Frame(cur[idx]))
  /\ idx' = idx + 1
  /\ lateSend' = (lateSend \/ closeCalls > 0)
  /\ UNCHANGED <<channel, ingestVars, queueVars, pc, upstream, emitted, cur, failure,
                 errSend, closeCalls, escaped, httpVars>>

\* ... raises: the connection is closed.
SendTranscriptFails ==
  /\ pc = "results" /\ idx <= Len(cur)
  /\ cur[idx].alternatives # <<>>
  /\ channel # "open"
  /\ failure' = "send"
  /\ pc' = "except"
  /\ lateSend' = (lateSend \/ closeCalls > 0)
  /\ UNCHANGED <<channel, ingestVars, queueVars, upstream, emitted, cur, idx, frames,
                 errSend, closeCalls, escaped, httpVars>>

\* An except clause whose error send is not itself guarded.
ExceptUnguarded ==
  /\ pc = "except"
  /\ IF channel = "open"
       THEN frames' = Send(frames, ErrorFrame) /\ errSend' = "sent" /\ escaped' = escaped
       ELSE frames' = frames /\ errSend' = "none" /\ escaped' = "ConnectionClosed"
  /\ lateSend' = (lateSend \/ closeCalls > 0)
  /\ pc' = "finally"
  /\ UNCHANGED <<channel, ingestVars, queueVars, upstream, emitted, cur, idx, failure,
                 closeCalls, httpVars>>

\* An except clause inside the inner loop: the loop goes on after the error.
ExceptInLoop ==
  /\ pc = "except"
  /\ IF channel = "open"
       THEN frames' = Send(frames, ErrorFrame) /\ errSend' = "sent"
       ELSE frames' = frames /\ errSend' = "swallowed"
  /\ lateSend' = (lateSend \/ closeCalls > 0)
  /\ IF failure = "upstream"
       THEN pc' = "finally" /\ idx' = idx
       ELSE pc' = "results" /\ idx' = idx + 1
  /\ UNCHANGED <<channel, ingestVars, queueVars, upstream, emitted, cur, failure,
                 closeCalls, escaped, httpVars>>

\* except Exception: print, then try ws.send("[ERROR] ...") except: pass.
Except ==
  /\ pc = "except"
  /\ IF channel = "open"
       THEN frames' = Send(frames, ErrorFrame) /\ errSend' = "sent"
       ELSE frames' = frames /\ errSend' = "swallowed"
  /\ lateSend' = (lateSend \/ closeCalls > 0)
  /\ pc' = "finally"
  /\ UNCHANGED <<channel, ingestVars, queueVars, upstream, emitted, cur, idx, failure,
                 closeCalls, escaped, httpVars>>

\* A close made only when the channel is still connected.
FinallyIfConnected ==
  /\ pc = "finally"
  /\ closeCalls' = IF channel = "open" THEN closeCalls + 1 ELSE closeCalls
  /\ channel' = IF channel = "open" THEN "server_closed" ELSE channel
  /\ pc' = "done"
  /\ UNCHANGED <<ingestVars, queueVars, upstream, emitted, cur, idx, frames, failure,
                 errSend, escaped, lateSend, httpVars>>

\* finally: ws.close().
Finally ==
  /\ pc = "finally"
  /\ closeCalls' = closeCalls + 1
  /\ channel' = IF channel = "open" THEN "server_closed" ELSE channel
  /\ pc' = "done"
  /\ UNCHANGED <<ingestVars, queueVars, upstream, emitted, cur, idx, frames, failure,
                 errSend, escaped, lateSend, httpVars>>

\* --------------------------------------------------- text as sequences
\* Texts are sequences of one-character strings; " " is whitespace.
IsSpace(c) == c = " " \/ c = "\n"

RECURSIVE LStrip(_)
LStrip(s) == IF s # <<>> /\ IsSpace(Head(s)) THEN LStrip(Tail(s)) ELSE s

RECURSIVE RStrip(_)
RStrip(s) ==
  IF s # <<>> /\ IsSpace(s[Len(s)]) THEN RStrip(SubSeq(s, 1, Len(s) - 1)) ELSE s

\* str.strip()
Strip(s) == RStrip(LStrip(s))

\* str.find(c): 0-based index of the first c, -1 when there is none.
Find(s, c) ==
  IF \E i \in 1..Len(s) : s[i] = c
    THEN (CHOOSE i \in 1..Len(s) : s[i] = c /\ \A j \in 1..(i - 1) : s[j] # c) - 1
    ELSE -1

\* str.rfind(c): 0-based index of the last c, -1 when there is none.
RFind(s, c) ==
  IF \E i \in 1..Len(s) : s[i] = c
    THEN (CHOOSE i \in 1..Len(s) : s[i] = c /\ \A j \in (i + 1)..Len(s) : s[j] # c) - 1
    ELSE -1

\* s[a:b] with Python's rules: a negative index counts from the end, indices
\* are clamped to 0..len(s).
SliceIndex(s, a) ==
  IF a < 0 THEN (IF Len(s) + a < 0 THEN 0 ELSE Len(s) + a)
  ELSE (IF a > Len(s) THEN Len(s) ELSE a)

Slice(s, a, b) == SubSeq(s, SliceIndex(s, a) + 1, SliceIndex(s, b))

\* str.replace(pat, ""): the non-overlapping occurrences, left to right.
RECURSIVE RemoveAll(_, _)
RemoveAll(s, pat) ==
  IF Len(s) < Len(pat) THEN s
  ELSE IF SubSeq(s, 1, Len(pat)) = pat
    THEN RemoveAll(SubSeq(s, Len(pat) + 1, Len(s)), pat)
    ELSE <<Head(s)>> \o RemoveAll(Tail(s), pat)

\* ---------------------------------------------------------- /generate
MaxQuestionsLen == 5   \* length of the model's answer to /generate
PrefixLen == 4         \* line[:4]

\* "1" a digit, "." the period, "a" any other visible character.
GenerateAlphabet == {"1", ".", "a", " ", "\n"}

IsDigit(c) == c = "1"

\* str.splitlines(), on "\n".
RECURSIVE SplitLines(_)
SplitLines(s) ==
  IF s = <<>> THEN <<>>
  ELSE LET i == Find(s, "\n") + 1
       IN IF i = 0 THEN <<s>>
          ELSE <<SubSeq(s, 1, i - 1)>> \o SplitLines(SubSeq(s, i + 1, Len(s)))

\* The numbered-line test: line[0].isdigit() and ('.' in line[:4]).
IsNumbered(line) ==
  /\ IsDigit(line[1])
  /\ \E i \in 1..PrefixLen : i <= Len(line) /\ line[i] = "."

\* The question of a stripped, non-empty line: line.split('.', 1)[1].strip()
\* for a numbered line, else the line.
QuestionOf(line) ==
  IF IsNumbered(line)
    THEN Strip(SubSeq(line, Find(line, ".") + 2, Len(line)))
    ELSE line

\* The loop over questions_text.splitlines().
RECURSIVE QuestionsOf(_)
QuestionsOf(lines) ==
  IF lines = <<>> THEN <<>>
  ELSE LET line == Strip(Head(lines))
       IN IF line = <<>> THEN QuestionsOf(Tail(lines))
          ELSE <<QuestionOf(line)>> \o QuestionsOf(Tail(lines))

\* generate() when model.generate_content answers: 200 with the questions.
GenerateOk ==
  /\ genStatus = "idle"
  /\ \E text \in SeqsUpTo(GenerateAlphabet, MaxQuestionsLen) :
       /\ response_text' = text
       /\ questions' = QuestionsOf(SplitLines(Strip(text)))
  /\ genStatus' = "200"
  /\ UNCHANGED <<audioVars, evaluateVars>>

\* generate() when anything raises: 500 with an error.
GenerateError ==
  /\ genStatus = "idle"
  /\ genStatus' = "500"
  /\ UNCHANGED <<audioVars, response_text, questions, evaluateVars>>

\* ---------------------------------------------------------- /evaluate
MaxEvaluationLen == 4   \* length of the model's answer to /evaluate

\* "F" the fence ```, "J" the word json, "m" a member "key": value, "x" prose.
EvaluateAlphabet == {"{", "}", "F", "J", "m", "x", " "}

Absent == "absent"
Null == "null"
FieldValues == {Absent, Null, "", "text"}
NoBody == [body |-> FALSE]
EvaluateRequests ==
  {NoBody} \cup [body : {TRUE}, question : FieldValues, answer : FieldValues]

\* data.get(key, ""): the default for an absent key.
Get(v) == IF v = Absent THEN "" ELSE v

\* Python truthiness of a field value.
Truthy(v) == v # "" /\ v # Null

\* `not question and not answer`
MissingBoth(question, answer) == ~Truthy(question) /\ ~Truthy(answer)

\* `not question or not answer`
Missing(question, answer) == ~Truthy(question) \/ ~Truthy(answer)

\* json.loads succeeds: an object { }, { m } or { <object> }, whitespace allowed.
RECURSIVE IsJsonObject(_)
IsJsonObject(s) ==
  LET t == Strip(s)
  IN /\ Len(t) >= 2
     /\ t[1] = "{"
     /\ t[Len(t)] = "}"
     /\ LET v == Strip(SubSeq(t, 2, Len(t) - 1))
        IN v = <<>> \/ v = <<"m">> \/ IsJsonObject(v)

\* raw_text.strip().replace("```json", "").replace("```", "")
Cleaned(raw) == RemoveAll(RemoveAll(Strip(raw), <<"F", "J">>), <<"F">>)

\* A slice that ends at the first "}".
JsonPartFirstClose(cleaned) ==
  Slice(cleaned, Find(cleaned, "{"), Find(cleaned, "}") + 1)

\* cleaned[cleaned.find("{"): cleaned.rfind("}") + 1]
JsonPart(cleaned) == Slice(cleaned, Find(cleaned, "{"), RFind(cleaned, "}") + 1)

\* A fallback that passes the cleaned text on.
FallbackCleaned(raw, cleaned) == [kind |-> "raw_evaluation", value |-> cleaned]

\* The except branch of the parse: {"raw_evaluation": raw_text}
Fallback(raw, cleaned) == [kind |-> "raw_evaluation", value |-> raw]

\* try: json.loads(json_part) except Exception: the fallback.
Evaluation(raw) ==
  IF IsJsonObject(JsonPart(Cleaned(raw)))
    THEN [kind |-> "parsed", value |-> JsonPart(Cleaned(raw))]
    ELSE Fallback(raw, Cleaned(raw))

NoReply == [kind |-> "none", text |-> <<>>]
NoResponse == [status |-> 0, kind |-> "none", value |-> <<>>]

\* flask.request.get_json() gave no object: data.get raises, the outer except
\* answers 500.
EvaluateNoBody ==
  /\ evalPc = "validate" /\ ~evalData.body
  /\ evalResponse' = [status |-> 500, kind |-> "error", value |-> <<>>]
  /\ evalPc' = "done"
  /\ UNCHANGED <<audioVars, generateVars, evalData, reply, json_part, modelCalls>>

\* The validation fails: 400 "Missing question or answer".
EvaluateMissing ==
  /\ evalPc = "validate" /\ evalData.body
  /\ Missing(Get(evalData.question), Get(evalData.answer))
  /\ evalResponse' = [status |-> 400, kind |-> "error", value |-> <<>>]
  /\ evalPc' = "done"
  /\ UNCHANGED <<audioVars, generateVars, evalData, reply, json_part, modelCalls>>

\* The validation passes.
EvaluateValid ==
  /\ evalPc = "validate" /\ evalData.body
  /\ ~Missing(Get(evalData.question), Get(evalData.answer))
  /\ evalPc' = "call"
  /\ UNCHANGED <<audioVars, generateVars, evalData, reply, json_part, evalResponse,
                 modelCalls>>

\* model.generate_content answers; the extraction; 200 with the evaluation.
EvaluateOk ==
  /\ evalPc = "call"
  /\ modelCalls' = modelCalls + 1
  /\ \E raw \in SeqsUpTo(EvaluateAlphabet, MaxEvaluationLen) :
       /\ reply' = [kind |-> "text", text |-> raw]
       /\ json_part' = JsonPart(Cleaned(raw))
       /\ evalResponse' = [status |-> 200] @@ Evaluation(raw)
  /\ evalPc' = "done"
  /\ UNCHANGED <<audioVars, generateVars, evalData>>

\* model.generate_content raises: the outer except answers 500.
EvaluateError ==
  /\ evalPc = "call"
  /\ modelCalls' = modelCalls + 1
  /\ reply' = [kind |-> "raised", text |-> <<>>]
  /\ evalResponse' = [status |-> 500, kind |-> "error", value |-> <<>>]
  /\ evalPc' = "done"
  /\ UNCHANGED <<audioVars, generateVars, evalData, json_part>>

\* ------------------------------------------------------ specifications
InitGenerate == response_text = <<>> /\ questions = <<>> /\ genStatus = "idle"

InitEvaluate ==
  /\ evalPc = "validate" /\ evalData \in EvaluateRequests
  /\ reply = NoReply /\ json_part = <<>> /\ evalResponse = NoResponse
  /\ modelCalls = 0

\* No request to /evaluate is in progress.
IdleEvaluate ==
  /\ evalPc = "done" /\ evalData = NoBody
  /\ reply = NoReply /\ json_part = <<>> /\ evalResponse = NoResponse
  /\ modelCalls = 0

\* No request to /generate is in progress.
IdleGenerate == response_text = <<>> /\ questions = <<>> /\ genStatus = "none"

InitAudio ==
  /\ channel = "open"
  /\ ingestPc = "receive" /\ ingestData = None /\ received = <<>>
  /\ enqueued = <<>> /\ audio_q = <<>> /\ genPc = "get" /\ requests = <<>>
  /\ pc = "call" /\ upstream = "idle" /\ emitted = <<>> /\ cur = <<>> /\ idx = 1
  /\ frames = <<>> /\ failure = "none" /\ errSend = "none"
  /\ closeCalls = 0 /\ escaped = "none" /\ lateSend = FALSE

\* No /audio session: the handler has returned.
IdleAudio ==
  /\ channel = "server_closed"
  /\ ingestPc = "done" /\ ingestData = None /\ received = <<>>
  /\ enqueued = <<>> /\ audio_q = <<>> /\ genPc = "done" /\ requests = <<>>
  /\ pc = "done" /\ upstream = "ended" /\ emitted = <<>> /\ cur = <<>> /\ idx = 1
  /\ frames = <<>> /\ failure = "none" /\ errSend = "none"
  /\ closeCalls = 1 /\ escaped = "none" /\ lateSend = FALSE

\* One /audio session.
Init == InitAudio /\ IdleGenerate /\ IdleEvaluate

Next ==
  \/ ReceiveData \/ ReceiveNone \/ ReceiveClosed \/ PutData \/ PutSentinel
  \/ ClientDisconnect \/ GeneratorStep
  \/ Call \/ CallFails \/ IterResponse \/ IterExhausted \/ IterFails
  \/ ResultsDone \/ ResultNoAlternative \/ SendTranscript \/ SendTranscriptFails
  \/ Except \/ Finally

Spec == Init /\ [][Next]_vars

\* One request to /generate.
NextGenerate == GenerateOk \/ GenerateError

InitGenerateRequest == IdleAudio /\ InitGenerate /\ IdleEvaluate

SpecGenerate == InitGenerateRequest /\ [][NextGenerate]_vars

\* One request to /evaluate.
NextEvaluate ==
  \/ EvaluateNoBody \/ EvaluateMissing \/ EvaluateValid \/ EvaluateOk \/ EvaluateError

InitEvaluateRequest == IdleAudio /\ IdleGenerate /\ InitEvaluate

SpecEvaluate == InitEvaluateRequest /\ [][NextEvaluate]_vars

\* The /audio session under the scheduling the code has: the ingest thread and
\* the handler's own call run on; the request generator is pulled only by a
\* running upstream call; the client and the recognizer are not obliged to act.
Fairness ==
  /\ WF_vars(ReceiveClosed) /\ WF_vars(PutData) /\ WF_vars(PutSentinel)
  /\ WF_vars(Call \/ CallFails)
  /\ WF_vars(GeneratorStep /\ upstream = "active")

\* The same session with a recognizer whose responses carry at most one result.
IterSingle == NextResponse(1)

NextSingle ==
  \/ ReceiveData \/ ReceiveNone \/ ReceiveClosed \/ PutData \/ PutSentinel
  \/ ClientDisconnect \/ GeneratorStep
  \/ Call \/ CallFails \/ IterSingle \/ IterExhausted \/ IterFails
  \/ ResultsDone \/ ResultNoAlternative \/ SendTranscript \/ SendTranscriptFails
  \/ Except \/ Finally

FairSpec == Init /\ [][NextSingle]_vars /\ Fairness

\* ---------------------------------------------------------------- claims
Range(f) == { f[i] : i \in DOMAIN f }

IsTranscriptFrame(f) == f[1] \in {"[FINAL]", "[INTERIM]"}
TranscriptFrames == SelectSeq(frames, IsTranscriptFrame)
ErrorFrames == SelectSeq(frames, LAMBDA f : f = ErrorFrame)

\* The frame the claims give a result.
ClaimedFrame(r) ==
  <<IF r.is_final THEN "[FINAL]" ELSE "[INTERIM]", Head(r.alternatives)>>

HandlerOver == pc \in {"finally", "done"}

\* C1, as stated: when the handler has returned, the transcript frames sent are,
\* one per emitted result and in the same order, the tagged top transcripts
\* (of results that each have a top transcript).
C1_Original ==
  LET flat == Flatten(emitted)
  IN (pc = "done" /\ \A i \in 1..Len(flat) : flat[i].alternatives # <<>>) =>
       /\ Len(TranscriptFrames) = Len(flat)
       /\ \A i \in 1..Len(flat) : TranscriptFrames[i] = ClaimedFrame(flat[i])

\* C1, amended: at every moment the transcript frames sent are, one per result
\* and in order, the tagged top transcripts of a prefix of the emitted results,
\* and of all of them once the drain loop is over without a failed send and
\* without a result that has no alternative.
C1_OrderedPrefix ==
  LET flat == Flatten(emitted)
  IN /\ Len(TranscriptFrames) <= Len(flat)
     /\ \A i \in 1..Len(TranscriptFrames) :
          /\ flat[i].alternatives # <<>>
          /\ TranscriptFrames[i] = ClaimedFrame(flat[i])
     /\ (HandlerOver /\ failure \in {"none", "upstream"})
          => Len(TranscriptFrames) = Len(flat)

C1_Witness ==
  /\ pc = "done" /\ failure = "none"
  /\ Len(emitted) = 2 /\ Len(frames) = 2
  /\ frames[1][1] = "[INTERIM]" /\ frames[2][1] = "[FINAL]"
  /\ requests # <<>>

\* C2: ws.close() is called exactly once on every exit path of the handler,
\* and not before the handler reaches its finalization.
C2_ClosedOnce ==
  /\ pc = "done" => (closeCalls = 1 /\ channel # "open")
  /\ pc # "done" => closeCalls = 0

C2_Witness ==
  /\ pc = "done" /\ failure = "upstream" /\ errSend = "swallowed"
  /\ channel = "client_closed"

\* C3: the requests yielded are the chunks received, in order, each once; the
\* items dequeued are the requests, followed by the sentinel exactly when the
\* generator has ended; the sentinel is never a request.
C3_Fifo ==
  /\ requests \o (IF genPc = "done" THEN <<None>> ELSE <<>>) \o audio_q = enqueued
  /\ \A i \in 1..Len(requests) : requests[i] \in Chunks /\ requests[i] = received[i]
  /\ Len(requests) <= Len(received)
  /\ genPc = "done" => requests = received

C3_Witness ==
  /\ genPc = "done" /\ Len(requests) = 2 /\ requests[1] # requests[2]

\* C4: once a failure of the upstream call has been handled, exactly one
\* [ERROR] frame was sent, or none and the channel was closed (the failed send
\* swallowed); nothing leaves the handler.
C4_ErrorHandled ==
  /\ escaped = "none"
  /\ (failure = "upstream" /\ HandlerOver) =>
       \/ errSend = "sent" /\ Len(ErrorFrames) = 1
       \/ errSend = "swallowed" /\ channel # "open" /\ Len(ErrorFrames) = 0

C4_Witness ==
  /\ pc = "done" /\ failure = "upstream" /\ errSend = "sent"
  /\ Len(TranscriptFrames) >= 1

\* C10: an [ERROR] frame is the last frame, there is at most one, and no send
\* is attempted after ws.close().
C10_ErrorLast ==
  /\ Len(ErrorFrames) <= 1
  /\ \A i \in 1..Len(frames) : frames[i] = ErrorFrame => i = Len(frames)
  /\ ~lateSend

C10_Witness ==
  /\ pc = "done" /\ Len(frames) >= 2 /\ frames[Len(frames)] = ErrorFrame
  /\ failure = "index"

\* C9, the ingest thread: at most one sentinel is enqueued; it is enqueued
\* exactly when the thread has ended, as the last item; the thread leaves its
\* loop only on a closed channel or the close signal; a generator that has
\* ended has yielded every chunk received.
C9_Sentinel ==
  /\ Cardinality({ i \in DOMAIN enqueued : enqueued[i] = None }) <= 1
  /\ (None \in Range(enqueued)) <=> (ingestPc = "done")
  /\ ingestPc = "done" => enqueued[Len(enqueued)] = None
  /\ ingestPc \in {"sentinel", "done"} => (channel # "open" \/ ingestData = None)
  /\ genPc = "done" => requests = received

\* C9, as stated: ... and once the client has disconnected the request
\* sequence eventually ends.
C9_Original ==
  /\ []C9_Sentinel
  /\ (channel = "client_closed") ~> (genPc = "done")

\* C9, amended: ... once the channel is closed the thread eventually enqueues
\* the sentinel and ends, and once the client has disconnected the request
\* sequence eventually ends unless the upstream call is over (ended or
\* failed), after which nothing reads the request sequence.
C9_Amended ==
  /\ []C9_Sentinel
  /\ (channel # "open") ~> (ingestPc = "done")
  /\ (channel = "client_closed") ~> (genPc = "done" \/ upstream \in {"ended", "failed"})

C9_Witness ==
  /\ channel = "client_closed" /\ ingestPc = "done" /\ genPc = "done"
  /\ upstream = "active" /\ Len(requests) = 2

\* A field the claims call empty or absent.
IsEmptyField(v) == v \in {Absent, Null, ""}

HasChar(s, c) == \E i \in 1..Len(s) : s[i] = c

\* C6: when the model answers with a text whose extracted part does not parse
\* (an empty text and a text without braces among them), the response is 200
\* and its evaluation is the fallback holding the answer's text as it came.
C6_Fallback ==
  (evalPc = "done" /\ reply.kind = "text") =>
    /\ evalResponse.status = 200
    /\ (\/ ~IsJsonObject(json_part)
        \/ reply.text = <<>>
        \/ ~HasChar(reply.text, "{")
        \/ ~HasChar(reply.text, "}"))
         => evalResponse = [status |-> 200, kind |-> "raw_evaluation",
                            value |-> reply.text]

C6_Witness ==
  /\ evalPc = "done" /\ reply.kind = "text"
  /\ evalResponse.kind = "raw_evaluation"
  /\ reply.text = <<" ", "F", "{", "x">>
  /\ evalResponse.value = reply.text

\* The substring from the first "{" to the last "}", empty when there is none.
ClaimedSpan(c) ==
  IF HasChar(c, "{") /\ HasChar(c, "}") /\ Find(c, "{") <= RFind(c, "}")
    THEN SubSeq(c, Find(c, "{") + 1, RFind(c, "}") + 1)
    ELSE <<>>

\* C8, as stated: for every text of the model's answer the part handed to the
\* parser is the cleaned text (no fence marker left) from its first "{" to its
\* last "}".
C8_Original ==
  (evalPc = "done" /\ reply.kind = "text") =>
    /\ ~HasChar(Cleaned(reply.text), "F")
    /\ json_part = ClaimedSpan(Cleaned(reply.text))

\* C8, amended: the cleaned text holds no fence marker; when it holds a "{"
\* the part handed to the parser is the text from the first "{" to the last
\* "}" (empty when no "}" follows the first "{"); when it holds no "{" that
\* part is the final "}" of a text that ends with one and empty otherwise, and
\* the response is the fallback.
C8_Amended ==
  (evalPc = "done" /\ reply.kind = "text") =>
    LET cleaned == Cleaned(reply.text)
    IN /\ ~HasChar(cleaned, "F")
       /\ HasChar(cleaned, "{") => json_part = ClaimedSpan(cleaned)
       /\ ~HasChar(cleaned, "{") =>
            /\ json_part = IF cleaned # <<>> /\ cleaned[Len(cleaned)] = "}"
                             THEN <<"}">> ELSE <<>>
            /\ evalResponse.kind = "raw_evaluation"

C8_Witness ==
  /\ evalPc = "done" /\ reply.kind = "text"
  /\ reply.text = <<"F", "{", "}", "x">>
  /\ json_part = <<"{", "}">>
  /\ evalResponse.kind = "parsed"

\* The non-blank lines of a text, stripped.
RECURSIVE NonBlankLines(_)
NonBlankLines(lines) ==
  IF lines = <<>> THEN <<>>
  ELSE IF Strip(Head(lines)) = <<>> THEN NonBlankLines(Tail(lines))
  ELSE <<Strip(Head(lines))>> \o NonBlankLines(Tail(lines))

\* C7, as stated: the questions returned are non-empty, one per non-blank line
\* and in the lines' order; a line that is not numbered is returned trimmed, a
\* numbered line without its marker.
C7_Original ==
  genStatus = "200" =>
    LET lines == NonBlankLines(SplitLines(response_text))
    IN /\ Len(questions) = Len(lines)
       /\ \A i \in 1..Len(questions) :
            /\ questions[i] # <<>>
            /\ ~IsNumbered(lines[i]) => questions[i] = lines[i]
            /\ IsNumbered(lines[i]) => questions[i] # lines[i]

====
